---- MODULE Spec2Model ----
(***************************************************************************)
(* Genetic-algorithm search for a solution of the 8-queens problem.        *)
(*   src/state.py          class State (digit string, mate, generator)     *)
(*   src/genetic_search.py fitness, goal and the search script             *)
(*                                                                         *)
(* A Python string is a sequence of one-character strings: an ASCII        *)
(* character is written as itself, any other character as the name of its  *)
(* code point ("U+FF11" is FULLWIDTH DIGIT ONE).  A State                   *)
(* object is a record [id, digits]: id is the identity of the object       *)
(* (State defines neither __eq__ nor __hash__, so dictionaries compare     *)
(* States by identity), digits is the attribute _digits.                   *)
(* Random draws are inputs of the operators that consume them.             *)
(***************************************************************************)
EXTENDS Integers, Sequences, FiniteSets, TLC

----------------------------------------------------------------------------
(* Bounds of the model *)

\* size of the population and of the mating pool (1000 in the source)
K == 3
\* number of matings the search model performs at most: a generation is
\* opened only where the bound leaves room for its K - 1 matings
MaxIterations == 5
\* number of digits that may mutate over one run of the search model
MaxMutations == 1
\* number of digits that may mutate in one checked call of mate
MaxCallMutations == 1
\* number of positions in which a checked fitness input differs from a base
MaxEdits == 2
\* length of the string keys handed to __getitem__
MaxKeyLen == 2
\* number of States requested from one call of generator
MaxCount == 2
\* number of successive calls of generator
MaxCalls == 2

----------------------------------------------------------------------------
(* Program constants *)

BOARD_SIZE == 8
SOLUTION == 28
\* in percent: 0.05 in the source
MUTATION_PROBABILITY == 5

_VALID_DIGITS == <<"1", "2", "3", "4", "5", "6", "7", "8">>
_N == Len(_VALID_DIGITS)
_FILES == <<"a", "b", "c", "d", "e", "f", "g", "h">>

\* a call returns Ok(value) or raises: Raise(error)
Ok(v) == [ok |-> TRUE, v |-> v]
Raise(e) == [ok |-> FALSE, err |-> e]
AssertionError == "AssertionError"
ValueError == "ValueError"
IndexError == "IndexError"
TypeError == "TypeError"
\* a name no assignment has bound yet
Unbound == [unbound |-> TRUE]

----------------------------------------------------------------------------
(* Python built-ins used by the program *)

abs(x) == IF x < 0 THEN -x ELSE x

\* the characters int accepts as one digit: the decimal digits of Unicode
\* (category Nd), in blocks of ten that run from the digit of value 0 to the
\* digit of value 9
DecimalDigits ==
    <<
       <<"0", "1", "2", "3", "4", "5", "6", "7", "8", "9">>,
       <<"U+0660", "U+0661", "U+0662", "U+0663", "U+0664", "U+0665", "U+0666", "U+0667", "U+0668", "U+0669">>,
       <<"U+06F0", "U+06F1", "U+06F2", "U+06F3", "U+06F4", "U+06F5", "U+06F6", "U+06F7", "U+06F8", "U+06F9">>,
       <<"U+07C0", "U+07C1", "U+07C2", "U+07C3", "U+07C4", "U+07C5", "U+07C6", "U+07C7", "U+07C8", "U+07C9">>,
       <<"U+0966", "U+0967", "U+0968", "U+0969", "U+096A", "U+096B", "U+096C", "U+096D", "U+096E", "U+096F">>,
       <<"U+09E6", "U+09E7", "U+09E8", "U+09E9", "U+09EA", "U+09EB", "U+09EC", "U+09ED", "U+09EE", "U+09EF">>,
       <<"U+0A66", "U+0A67", "U+0A68", "U+0A69", "U+0A6A", "U+0A6B", "U+0A6C", "U+0A6D", "U+0A6E", "U+0A6F">>,
       <<"U+0AE6", "U+0AE7", "U+0AE8", "U+0AE9", "U+0AEA", "U+0AEB", "U+0AEC", "U+0AED", "U+0AEE", "U+0AEF">>,
       <<"U+0B66", "U+0B67", "U+0B68", "U+0B69", "U+0B6A", "U+0B6B", "U+0B6C", "U+0B6D", "U+0B6E", "U+0B6F">>,
       <<"U+0BE6", "U+0BE7", "U+0BE8", "U+0BE9", "U+0BEA", "U+0BEB", "U+0BEC", "U+0BED", "U+0BEE", "U+0BEF">>,
       <<"U+0C66", "U+0C67", "U+0C68", "U+0C69", "U+0C6A", "U+0C6B", "U+0C6C", "U+0C6D", "U+0C6E", "U+0C6F">>,
       <<"U+0CE6", "U+0CE7", "U+0CE8", "U+0CE9", "U+0CEA", "U+0CEB", "U+0CEC", "U+0CED", "U+0CEE", "U+0CEF">>,
       <<"U+0D66", "U+0D67", "U+0D68", "U+0D69", "U+0D6A", "U+0D6B", "U+0D6C", "U+0D6D", "U+0D6E", "U+0D6F">>,
       <<"U+0DE6", "U+0DE7", "U+0DE8", "U+0DE9", "U+0DEA", "U+0DEB", "U+0DEC", "U+0DED", "U+0DEE", "U+0DEF">>,
       <<"U+0E50", "U+0E51", "U+0E52", "U+0E53", "U+0E54", "U+0E55", "U+0E56", "U+0E57", "U+0E58", "U+0E59">>,
       <<"U+0ED0", "U+0ED1", "U+0ED2", "U+0ED3", "U+0ED4", "U+0ED5", "U+0ED6", "U+0ED7", "U+0ED8", "U+0ED9">>,
       <<"U+0F20", "U+0F21", "U+0F22", "U+0F23", "U+0F24", "U+0F25", "U+0F26", "U+0F27", "U+0F28", "U+0F29">>,
       <<"U+1040", "U+1041", "U+1042", "U+1043", "U+1044", "U+1045", "U+1046", "U+1047", "U+1048", "U+1049">>,
       <<"U+1090", "U+1091", "U+1092", "U+1093", "U+1094", "U+1095", "U+1096", "U+1097", "U+1098", "U+1099">>,
       <<"U+17E0", "U+17E1", "U+17E2", "U+17E3", "U+17E4", "U+17E5", "U+17E6", "U+17E7", "U+17E8", "U+17E9">>,
       <<"U+1810", "U+1811", "U+1812", "U+1813", "U+1814", "U+1815", "U+1816", "U+1817", "U+1818", "U+1819">>,
       <<"U+1946", "U+1947", "U+1948", "U+1949", "U+194A", "U+194B", "U+194C", "U+194D", "U+194E", "U+194F">>,
       <<"U+19D0", "U+19D1", "U+19D2", "U+19D3", "U+19D4", "U+19D5", "U+19D6", "U+19D7", "U+19D8", "U+19D9">>,
       <<"U+1A80", "U+1A81", "U+1A82", "U+1A83", "U+1A84", "U+1A85", "U+1A86", "U+1A87", "U+1A88", "U+1A89">>,
       <<"U+1A90", "U+1A91", "U+1A92", "U+1A93", "U+1A94", "U+1A95", "U+1A96", "U+1A97", "U+1A98", "U+1A99">>,
       <<"U+1B50", "U+1B51", "U+1B52", "U+1B53", "U+1B54", "U+1B55", "U+1B56", "U+1B57", "U+1B58", "U+1B59">>,
       <<"U+1BB0", "U+1BB1", "U+1BB2", "U+1BB3", "U+1BB4", "U+1BB5", "U+1BB6", "U+1BB7", "U+1BB8", "U+1BB9">>,
       <<"U+1C40", "U+1C41", "U+1C42", "U+1C43", "U+1C44", "U+1C45", "U+1C46", "U+1C47", "U+1C48", "U+1C49">>,
       <<"U+1C50", "U+1C51", "U+1C52", "U+1C53", "U+1C54", "U+1C55", "U+1C56", "U+1C57", "U+1C58", "U+1C59">>,
       <<"U+A620", "U+A621", "U+A622", "U+A623", "U+A624", "U+A625", "U+A626", "U+A627", "U+A628", "U+A629">>,
       <<"U+A8D0", "U+A8D1", "U+A8D2", "U+A8D3", "U+A8D4", "U+A8D5", "U+A8D6", "U+A8D7", "U+A8D8", "U+A8D9">>,
       <<"U+A900", "U+A901", "U+A902", "U+A903", "U+A904", "U+A905", "U+A906", "U+A907", "U+A908", "U+A909">>,
       <<"U+A9D0", "U+A9D1", "U+A9D2", "U+A9D3", "U+A9D4", "U+A9D5", "U+A9D6", "U+A9D7", "U+A9D8", "U+A9D9">>,
       <<"U+A9F0", "U+A9F1", "U+A9F2", "U+A9F3", "U+A9F4", "U+A9F5", "U+A9F6", "U+A9F7", "U+A9F8", "U+A9F9">>,
       <<"U+AA50", "U+AA51", "U+AA52", "U+AA53", "U+AA54", "U+AA55", "U+AA56", "U+AA57", "U+AA58", "U+AA59">>,
       <<"U+ABF0", "U+ABF1", "U+ABF2", "U+ABF3", "U+ABF4", "U+ABF5", "U+ABF6", "U+ABF7", "U+ABF8", "U+ABF9">>,
       <<"U+FF10", "U+FF11", "U+FF12", "U+FF13", "U+FF14", "U+FF15", "U+FF16", "U+FF17", "U+FF18", "U+FF19">>,
       <<"U+104A0", "U+104A1", "U+104A2", "U+104A3", "U+104A4", "U+104A5", "U+104A6", "U+104A7", "U+104A8", "U+104A9">>,
       <<"U+10D30", "U+10D31", "U+10D32", "U+10D33", "U+10D34", "U+10D35", "U+10D36", "U+10D37", "U+10D38", "U+10D39">>,
       <<"U+11066", "U+11067", "U+11068", "U+11069", "U+1106A", "U+1106B", "U+1106C", "U+1106D", "U+1106E", "U+1106F">>,
       <<"U+110F0", "U+110F1", "U+110F2", "U+110F3", "U+110F4", "U+110F5", "U+110F6", "U+110F7", "U+110F8", "U+110F9">>,
       <<"U+11136", "U+11137", "U+11138", "U+11139", "U+1113A", "U+1113B", "U+1113C", "U+1113D", "U+1113E", "U+1113F">>,
       <<"U+111D0", "U+111D1", "U+111D2", "U+111D3", "U+111D4", "U+111D5", "U+111D6", "U+111D7", "U+111D8", "U+111D9">>,
       <<"U+112F0", "U+112F1", "U+112F2", "U+112F3", "U+112F4", "U+112F5", "U+112F6", "U+112F7", "U+112F8", "U+112F9">>,
       <<"U+11450", "U+11451", "U+11452", "U+11453", "U+11454", "U+11455", "U+11456", "U+11457", "U+11458", "U+11459">>,
       <<"U+114D0", "U+114D1", "U+114D2", "U+114D3", "U+114D4", "U+114D5", "U+114D6", "U+114D7", "U+114D8", "U+114D9">>,
       <<"U+11650", "U+11651", "U+11652", "U+11653", "U+11654", "U+11655", "U+11656", "U+11657", "U+11658", "U+11659">>,
       <<"U+116C0", "U+116C1", "U+116C2", "U+116C3", "U+116C4", "U+116C5", "U+116C6", "U+116C7", "U+116C8", "U+116C9">>,
       <<"U+11730", "U+11731", "U+11732", "U+11733", "U+11734", "U+11735", "U+11736", "U+11737", "U+11738", "U+11739">>,
       <<"U+118E0", "U+118E1", "U+118E2", "U+118E3", "U+118E4", "U+118E5", "U+118E6", "U+118E7", "U+118E8", "U+118E9">>,
       <<"U+11950", "U+11951", "U+11952", "U+11953", "U+11954", "U+11955", "U+11956", "U+11957", "U+11958", "U+11959">>,
       <<"U+11C50", "U+11C51", "U+11C52", "U+11C53", "U+11C54", "U+11C55", "U+11C56", "U+11C57", "U+11C58", "U+11C59">>,
       <<"U+11D50", "U+11D51", "U+11D52", "U+11D53", "U+11D54", "U+11D55", "U+11D56", "U+11D57", "U+11D58", "U+11D59">>,
       <<"U+11DA0", "U+11DA1", "U+11DA2", "U+11DA3", "U+11DA4", "U+11DA5", "U+11DA6", "U+11DA7", "U+11DA8", "U+11DA9">>,
       <<"U+16A60", "U+16A61", "U+16A62", "U+16A63", "U+16A64", "U+16A65", "U+16A66", "U+16A67", "U+16A68", "U+16A69">>,
       <<"U+16AC0", "U+16AC1", "U+16AC2", "U+16AC3", "U+16AC4", "U+16AC5", "U+16AC6", "U+16AC7", "U+16AC8", "U+16AC9">>,
       <<"U+16B50", "U+16B51", "U+16B52", "U+16B53", "U+16B54", "U+16B55", "U+16B56", "U+16B57", "U+16B58", "U+16B59">>,
       <<"U+1D7CE", "U+1D7CF", "U+1D7D0", "U+1D7D1", "U+1D7D2", "U+1D7D3", "U+1D7D4", "U+1D7D5", "U+1D7D6", "U+1D7D7">>,
       <<"U+1D7D8", "U+1D7D9", "U+1D7DA", "U+1D7DB", "U+1D7DC", "U+1D7DD", "U+1D7DE", "U+1D7DF", "U+1D7E0", "U+1D7E1">>,
       <<"U+1D7E2", "U+1D7E3", "U+1D7E4", "U+1D7E5", "U+1D7E6", "U+1D7E7", "U+1D7E8", "U+1D7E9", "U+1D7EA", "U+1D7EB">>,
       <<"U+1D7EC", "U+1D7ED", "U+1D7EE", "U+1D7EF", "U+1D7F0", "U+1D7F1", "U+1D7F2", "U+1D7F3", "U+1D7F4", "U+1D7F5">>,
       <<"U+1D7F6", "U+1D7F7", "U+1D7F8", "U+1D7F9", "U+1D7FA", "U+1D7FB", "U+1D7FC", "U+1D7FD", "U+1D7FE", "U+1D7FF">>,
       <<"U+1E140", "U+1E141", "U+1E142", "U+1E143", "U+1E144", "U+1E145", "U+1E146", "U+1E147", "U+1E148", "U+1E149">>,
       <<"U+1E2F0", "U+1E2F1", "U+1E2F2", "U+1E2F3", "U+1E2F4", "U+1E2F5", "U+1E2F6", "U+1E2F7", "U+1E2F8", "U+1E2F9">>,
       <<"U+1E950", "U+1E951", "U+1E952", "U+1E953", "U+1E954", "U+1E955", "U+1E956", "U+1E957", "U+1E958", "U+1E959">>,
       <<"U+1FBF0", "U+1FBF1", "U+1FBF2", "U+1FBF3", "U+1FBF4", "U+1FBF5", "U+1FBF6", "U+1FBF7", "U+1FBF8", "U+1FBF9">>
    >>

DecimalChars ==
    UNION {{DecimalDigits[b][v] : v \in 1..10} : b \in 1..Len(DecimalDigits)}

\* the value of each of these characters
DecimalValue ==
    [ch \in DecimalChars |->
        (CHOOSE v \in 1..10 :
            \E b \in 1..Len(DecimalDigits) : DecimalDigits[b][v] = ch) - 1]

\* int(ch) for a one-character string: Ok(value), or ValueError for a character
\* that is no decimal digit ("digit or 0" in State.__init__ only guards the
\* empty string, which is no character of a string)
int(ch) ==
    IF ch \in DecimalChars THEN Ok(DecimalValue[ch]) ELSE Raise(ValueError)

\* str[start:stop] on a string, 0-based: negative bounds count from the end, and
\* bounds are clipped as Python does (an omitted start is 0, an omitted stop
\* is len(str))
Slice(str, start, stop) ==
    LET n  == Len(str)
        Clip(b) == IF b < -n THEN 0
                   ELSE IF b < 0 THEN n + b
                   ELSE IF b > n THEN n
                   ELSE b
        lo == Clip(start)
        hi == Clip(stop)
    IN  IF hi <= lo THEN <<>> ELSE SubSeq(str, lo + 1, hi)

\* needle in haystack, for two strings: the substring test
StrIn(needle, haystack) ==
    \E k \in 0..(Len(haystack) - Len(needle)) :
        Slice(haystack, k, k + Len(needle)) = needle

\* haystack.index(needle): the lowest position where needle occurs
StrIndex(needle, haystack) ==
    IF StrIn(needle, haystack)
    THEN Ok(CHOOSE k \in 0..(Len(haystack) - Len(needle)) :
               /\ Slice(haystack, k, k + Len(needle)) = needle
               /\ \A m \in 0..(k - 1) : Slice(haystack, m, m + Len(needle)) # needle)
    ELSE Raise(ValueError)

----------------------------------------------------------------------------
(* class State *)

\* State(digits) allocated as object id: Ok(the new object), or the error the
\* loop of __init__ raises at the first digit that fails: ValueError from int
\* for a non-digit, AssertionError for a digit outside 1.._N
NewState(id, digits) ==
    IF Len(digits) # _N THEN Raise(AssertionError)
    ELSE LET Fails(p) == IF int(digits[p]).ok
                         THEN ~(1 <= int(digits[p]).v /\ int(digits[p]).v <= _N)
                         ELSE TRUE
         IN  IF \E p \in 1..Len(digits) : Fails(p)
             THEN LET first == CHOOSE p \in 1..Len(digits) :
                                   Fails(p) /\ \A q \in 1..(p - 1) : ~Fails(q)
                  IN  IF int(digits[first]).ok THEN Raise(AssertionError)
                      ELSE Raise(ValueError)
             ELSE Ok([id |-> id, digits |-> digits])

\* a == b and hash(a) == hash(b) for two State objects: the class defines
\* neither __eq__ nor __hash__, so both are the identity of the object
StateEq(x, y) == x.id = y.id

\* keys of __getitem__
IntKey(n) == [type |-> "int", v |-> n]
SliceKey(start, stop) == [type |-> "slice", start |-> start, stop |-> stop]
StrKey(str) == [type |-> "str", v |-> str]
OtherKey == [type |-> "other"]

\* self[key]
__getitem__(self, key) ==
    IF key.type = "int"
    THEN IF key.v >= 0 /\ key.v < Len(self.digits)
         THEN Ok(self.digits[key.v + 1])
         ELSE IF key.v < 0 /\ key.v >= -Len(self.digits)
              THEN Ok(self.digits[Len(self.digits) + key.v + 1])
         ELSE Raise(IndexError)
    ELSE IF key.type = "slice"
    THEN Ok(Slice(self.digits, key.start, key.stop))
    ELSE IF key.type = "str"
    THEN IF ~StrIn(key.v, _FILES) THEN Raise(AssertionError)
         ELSE Ok(self.digits[StrIndex(key.v, _FILES).v + 1])
    ELSE Raise(TypeError)

\* the digits after the mutation loop: r[p] is "" where random.random() was not
\* below the probability at position p, and the digit random.choice drew otherwise
Mutate(digits, r) ==
    [p \in 1..Len(digits) |-> IF r[p] = "" THEN digits[p] ELSE r[p]]

\* a crossover that cuts one file late
mate_late_cut(self, other, mutation_probability, c, r, id) ==
    IF ~(0 <= mutation_probability /\ mutation_probability < 100)
    THEN Raise(AssertionError)
    ELSE LET digits == __getitem__(self, SliceKey(0, c + 1)).v
                       \o __getitem__(other, SliceKey(c + 1, Len(other.digits))).v
         IN  IF mutation_probability > 0
             THEN NewState(id, Mutate(digits, r))
             ELSE NewState(id, digits)

\* self.mate(other, mutation_probability), the probability in percent, with the
\* random draws c and r; the successor is allocated as object id
mate(self, other, mutation_probability, c, r, id) ==
    IF ~(0 <= mutation_probability /\ mutation_probability < 100)
    THEN Raise(AssertionError)
    ELSE LET digits == __getitem__(self, SliceKey(0, c)).v
                       \o __getitem__(other, SliceKey(c, Len(other.digits))).v
         IN  IF mutation_probability > 0
             THEN NewState(id, Mutate(digits, r))
             ELSE NewState(id, digits)

----------------------------------------------------------------------------
(* genetic_search.py: fitness and goal *)

\* range(a, b)
range(a, b) == a..(b - 1)

\* the pairs (i, j) the two loops of fitness visit
fitness_pairs ==
    UNION {{<<i, j>> : j \in range(i + 1, 8)} : i \in range(0, BOARD_SIZE)}

\* the score: one for each visited pair that passes the test of line 26
fitness(s) ==
    Cardinality({ij \in fitness_pairs :
        /\ __getitem__(s, IntKey(ij[1])).v # __getitem__(s, IntKey(ij[2])).v
        /\ abs(ij[1] - ij[2])
              # abs(int(__getitem__(s, IntKey(ij[1])).v).v
                    - int(__getitem__(s, IntKey(ij[2])).v).v)})

\* a goal test that accepts a board two pairs short of the full score
goal_near(s) == fitness(s) >= SOLUTION - 2

\* a goal test that asks for more than the full score
goal_beyond(s) == fitness(s) > SOLUTION

goal(s) == fitness(s) = SOLUTION

----------------------------------------------------------------------------
(* dict and sorted, as the search script uses them *)

\* the position of key in the dictionary d (a sequence of entries in insertion
\* order), 0 when d has no equal key
dict_pos(d, key) ==
    IF \E p \in 1..Len(d) : StateEq(d[p].key, key)
    THEN CHOOSE p \in 1..Len(d) : StateEq(d[p].key, key)
    ELSE 0

\* d[key] = val: an equal key keeps its place and takes the value, a new key
\* goes last
dict_set(d, key, val) ==
    IF dict_pos(d, key) # 0
    THEN [d EXCEPT ![dict_pos(d, key)].val = val]
    ELSE Append(d, [key |-> key, val |-> val])

\* d.get(key), for the keys of d
dict_get(d, key) == d[dict_pos(d, key)].val

\* list(d): the keys in insertion order
dict_keys(d) == [p \in 1..Len(d) |-> d[p].key]

\* sorted(keys, key=d.get, reverse=True): by descending value, and stable, so
\* keys of equal value keep the order they have in keys.  The key at place a
\* comes out at its rank: one more than the number of keys that go before it
sorted_reverse(keys, d) ==
    LET n == Len(keys)
        Before(a, b) ==
            \/ dict_get(d, keys[a]) > dict_get(d, keys[b])
            \/ dict_get(d, keys[a]) = dict_get(d, keys[b]) /\ a < b
        Rank(a) == Cardinality({b \in 1..n : Before(b, a)}) + 1
    IN  [p \in 1..n |-> keys[CHOOSE a \in 1..n : Rank(a) = p]]

----------------------------------------------------------------------------
(* State.generator and the class attributes it uses *)

\* len(tuple(itertools.product(_VALID_DIGITS, repeat=_N)))
ProductLen == _N ^ _N

\* the tuple itertools.product yields at 0-based position idx: the rightmost
\* digit advances fastest
ProductAt(idx) ==
    [p \in 1.._N |-> _VALID_DIGITS[((idx \div (_N ^ (_N - p))) % _N) + 1]]

\* tuple(cls._state_gen): an iterator yields its elements once.  A tuple of
\* product elements is kept as its length; element idx is ProductAt(idx)
TupleOfStateGen(gen) ==
    IF gen = "fresh" THEN [len |-> ProductLen] ELSE [len |-> 0]

\* a first step that rebuilds the tuple from the class iterator on every call
generator_first_reloads(num_states, cls_possible_states, cls_state_gen, picks) ==
    IF ~(num_states > 0)
    THEN [ret |-> Raise(AssertionError),
          _possible_states |-> cls_possible_states, _state_gen |-> cls_state_gen]
    ELSE LET loaded == TupleOfStateGen(cls_state_gen)
             gen    == "exhausted"
         IN  IF num_states > loaded.len
             THEN [ret |-> Raise(ValueError),
                   _possible_states |-> loaded, _state_gen |-> gen]
             ELSE [ret |-> Ok(picks),
                   _possible_states |-> loaded, _state_gen |-> gen]

\* lines 97-106, which the first next() of a generator object runs before its
\* first yield: the assertion, the lazy load and random.sample, with the class
\* attributes _possible_states (len -1 is None) and _state_gen and the
\* positions picks that random.sample draws: the sample (as positions of the
\* enumeration) or the error raised, and the class attributes afterwards
generator_first(num_states, cls_possible_states, cls_state_gen, picks) ==
    IF ~(num_states > 0)
    THEN [ret |-> Raise(AssertionError),
          _possible_states |-> cls_possible_states, _state_gen |-> cls_state_gen]
    ELSE LET loaded == IF cls_possible_states.len = -1
                       THEN TupleOfStateGen(cls_state_gen)
                       ELSE cls_possible_states
             gen    == IF cls_possible_states.len = -1
                       THEN "exhausted"
                       ELSE cls_state_gen
         IN  IF num_states > loaded.len
             THEN [ret |-> Raise(ValueError),
                   _possible_states |-> loaded, _state_gen |-> gen]
             ELSE [ret |-> Ok(picks),
                   _possible_states |-> loaded, _state_gen |-> gen]

\* line 107: the State built from the sampled tuple at position idx and
\* yielded, allocated as object id
generator_yield(idx, id) == NewState(id, ProductAt(idx)).v

\* tuple(cls.generator(num_states)): the generator run to its end in one go, as
\* line 69 of the script does, the objects allocated from id0 on: the States
\* yielded or the error raised, and the class attributes afterwards
generator(num_states, cls_possible_states, cls_state_gen, picks, id0) ==
    LET first == generator_first(num_states, cls_possible_states,
                                 cls_state_gen, picks)
    IN  [ret |-> IF first.ret.ok
                 THEN Ok([n \in 1..num_states |->
                            generator_yield(first.ret.v[n], id0 + n - 1)])
                 ELSE first.ret,
         _possible_states |-> first._possible_states,
         _state_gen |-> first._state_gen]

\* the outcomes of random.sample(range(n), k) among the positions of pool
Samples(pool, n, k) ==
    {picks \in [1..k -> {x \in pool : x < n}] :
        \A a, b \in 1..k : a # b => picks[a] # picks[b]}

----------------------------------------------------------------------------
(* The state of the program *)

VARIABLES
    hashmap,          \* genetic_search.py: State -> fitness, in insertion order
    searching,        \* genetic_search.py: searching
    iterations,       \* genetic_search.py: iterations
    counter,          \* genetic_search.py: counter
    maiting_pairs,    \* genetic_search.py: maiting_pairs
    i,                \* genetic_search.py: the index of the for loop
    golden_child,     \* genetic_search.py: golden_child
    output,           \* what the last two print calls of the script wrote
    pc,               \* the position of the script
    possible_states,  \* State._possible_states
    state_gen,        \* State._state_gen
    call,             \* the call a checked method was given
    ret,              \* what that call returned or raised
    ncalls,           \* number of checked calls so far
    gens,             \* the generator objects State.generator has returned
    mutations,        \* history: digits mutated so far
    first_goal,       \* history: the first child that is a solution
    parents,          \* history: the parents of the last mating
    last_pool         \* history: the pool of the generation before

vars == <<hashmap, searching, iterations, counter, maiting_pairs, i,
          golden_child, output, pc, possible_states, state_gen,
          call, ret, ncalls, gens, mutations, first_goal, parents, last_pool>>

scriptVars == <<hashmap, searching, iterations, counter, maiting_pairs, i,
                golden_child, output, pc, mutations, first_goal, parents,
                last_pool>>

NoCall == [op |-> "none"]

----------------------------------------------------------------------------
(* Inputs of the search model *)

\* the place of a digit in _VALID_DIGITS
PlaceTable ==
    [ch \in {_VALID_DIGITS[v] : v \in 1.._N} |->
        CHOOSE v \in 1.._N : _VALID_DIGITS[v] = ch]

\* the row a digit character stands for: its value
RowOf(ch) == DecimalValue[ch]

\* no two queens share a row or a diagonal
IsSolution(digits) ==
    \A a, b \in 1..Len(digits) :
        a < b => /\ RowOf(digits[a]) # RowOf(digits[b])
                 /\ b - a # RowOf(digits[a]) - RowOf(digits[b])
                 /\ b - a # RowOf(digits[b]) - RowOf(digits[a])

\* the position of a digit string in the enumeration of itertools.product
RECURSIVE PositionOf(_)
PositionOf(digits) ==
    IF digits = <<>> THEN 0
    ELSE PositionOf(SubSeq(digits, 1, Len(digits) - 1)) * _N
         + (PlaceTable[digits[Len(digits)]] - 1)

\* the boards the initial population is drawn from: one solution and its
\* neighbours in files d and e
Seeds ==
    { <<"4", "1", "5", "8", "2", "7", "3", "6">>,
      <<"4", "1", "5", "8", "1", "7", "3", "6">>,
      <<"4", "1", "5", "1", "2", "7", "3", "6">>,
      <<"4", "1", "5", "1", "1", "7", "3", "6">> }

SeedPositions == {PositionOf(s) : s \in Seeds}

\* the files whose digit may mutate in the search model: file e, where the
\* seeds differ
MutableFiles == {StrIndex(<<"e">>, _FILES).v + 1}
\* the digits random.choice may draw there: the two the seeds hold in file e,
\* and one that leads to other boards
MutationDigits == {"1", "2", "3"}

\* the random draws of one mutation loop in which at most n digits mutate, all
\* of them in the given files and to the given digits
Draws(n, files, digits) ==
    LET Places == {P \in SUBSET files : Cardinality(P) <= n}
        Picked == UNION {[P -> digits] : P \in Places}
    IN  {[p \in 1.._N |-> IF p \in DOMAIN f THEN f[p] ELSE ""] : f \in Picked}

\* Draws, tabulated for the budgets of the search model
DrawsUpTo == [n \in 0..MaxMutations |-> Draws(n, MutableFiles, MutationDigits)]

Mutated(r) == Cardinality({p \in DOMAIN r : r[p] # ""})

----------------------------------------------------------------------------
(* genetic_search.py: the script *)

\* lines 72-74: hashmap[state] = fitness(state) for each state of population
RECURSIVE FillHashmap(_)
FillHashmap(population) ==
    IF population = <<>> THEN <<>>
    ELSE LET state == population[Len(population)]
         IN  dict_set(FillHashmap(SubSeq(population, 1, Len(population) - 1)),
                      state, fitness(state))

\* lines 64-79: the population is generated and scored
Init ==
    /\ \E picks \in Samples(SeedPositions, ProductLen, K) :
          LET g == generator(K, [len |-> -1], "fresh", picks, 1)
          IN  /\ hashmap = FillHashmap(g.ret.v)
              /\ possible_states = g._possible_states
              /\ state_gen = g._state_gen
    /\ searching = TRUE
    /\ iterations = 0
    /\ counter = 0
    /\ maiting_pairs = Unbound
    /\ i = 0
    /\ golden_child = Unbound
    /\ output = Unbound
    /\ pc = "while"
    /\ call = NoCall
    /\ ret = Unbound
    /\ ncalls = 0
    /\ gens = <<>>
    /\ mutations = 0
    /\ first_goal = Unbound
    /\ parents = Unbound
    /\ last_pool = Unbound

\* a pool cut from the population as it stands, the ranking forgotten
MatingPool_unranked(d) == Slice(dict_keys(d), 0, K)

\* lines 84-85: the ranking of the population and the mating pool cut from it
MatingPool(d) ==
    LET sorted_population == sorted_reverse(dict_keys(d), d)
    IN  Slice(sorted_population, 0, K)

\* lines 81-85: the loop test, and the ranking that opens a generation
WhileStep ==
    /\ pc = "while"
    /\ searching
    /\ iterations + (K - 1) <= MaxIterations
    /\ counter' = counter + 1
    /\ maiting_pairs' = MatingPool(hashmap)
    /\ last_pool' = maiting_pairs
    /\ i' = 0
    /\ pc' = IF 0 < K - 1 THEN "for" ELSE "while"
    /\ UNCHANGED <<hashmap, searching, iterations, golden_child, output,
                   possible_states, state_gen, call, ret, ncalls, gens,
                   mutations, first_goal, parents>>

\* lines 88-94: the body of the for loop with the random draws c and r, but
\* for the count of iterations; the child is the next object allocated
Mating(c, r) ==
    \E self \in {maiting_pairs[i + 1]}, other \in {maiting_pairs[i + 2]} :
    \E child \in {mate(self, other, MUTATION_PROBABILITY, c, r,
                       Len(hashmap) + 1).v} :
        /\ hashmap' = dict_set(hashmap, child, fitness(child))
        /\ IF goal(child)
           THEN /\ golden_child' = child
                /\ searching' = FALSE
           ELSE UNCHANGED <<golden_child, searching>>
        /\ mutations' = mutations + Mutated(r)
        /\ first_goal' = IF first_goal = Unbound /\ IsSolution(child.digits)
                         THEN [child |-> child, counter |-> counter, i |-> i]
                         ELSE first_goal
        /\ parents' = <<self, other>>
        /\ i' = i + 1
        /\ pc' = IF i + 1 < K - 1 THEN "for" ELSE "while"

\* lines 87-94: one pass of the for loop
ForStep ==
    /\ pc = "for"
    /\ i < K - 1
    /\ iterations' = iterations + 1
    /\ \E c \in 0..(_N - 1), r \in DrawsUpTo[MaxMutations - mutations] :
          Mating(c, r)
    /\ UNCHANGED <<counter, maiting_pairs, output, last_pool,
                   possible_states, state_gen, call, ret, ncalls, gens>>

\* lines 96-98: the loop is left and the result printed
Finish ==
    /\ pc = "while"
    /\ ~searching
    /\ output' = [golden_child |-> golden_child.digits, iterations |-> iterations]
    /\ pc' = "done"
    /\ UNCHANGED <<hashmap, searching, iterations, counter, maiting_pairs, i,
                   golden_child, possible_states, state_gen, call, ret, ncalls, gens,
                   mutations, first_goal, parents, last_pool>>

Next == WhileStep \/ ForStep \/ Finish

Spec == Init /\ [][Next]_vars

----------------------------------------------------------------------------
(* The search script: properties *)

\* the value the dictionary caches for the entry at position p
Cached(p) == hashmap[p].val

InPool(key) == \E p \in 1..Len(maiting_pairs) : StateEq(maiting_pairs[p], key)

\* C1: on the first goal child of a generation no further mating is performed,
\* the loop leaves RUNNING, and that child is the recorded solution
C1_StopsAtFirstGoal ==
    first_goal # Unbound =>
        /\ ~searching
        /\ golden_child = first_goal.child
        /\ i = first_goal.i + 1

\* C2: the reported iterations are the matings up to and including the one that
\* produced the solution: K-1 for every goal-free generation, and the 1-based
\* index of the goal-producing mating in the last generation
C2_IterationsCountToGoal ==
    pc = "done" =>
        output.iterations = (K - 1) * (first_goal.counter - 1) + (first_goal.i + 1)

\* C3: the population never holds two keys with the same digits
C3_OneEntryPerRowSequence ==
    \A p, q \in 1..Len(hashmap) :
        p # q => hashmap[p].key.digits # hashmap[q].key.digits

\* C4: when the loop has terminated, the State reported as the solution is a
\* goal: no two of its queens attack, and its cached fitness is 28
C4_SolutionIsGoal ==
    pc = "done" =>
        /\ golden_child # Unbound
        /\ output.golden_child = golden_child.digits
        /\ IsSolution(golden_child.digits)
        /\ dict_get(hashmap, golden_child) = SOLUTION

\* a run that ended in its second generation, after a mutation
C4_Witness ==
    /\ pc = "done"
    /\ counter = 2
    /\ mutations > 0

\* C10: at the start of a generation the pool is K members of the population,
\* none less fit than a non-member, in order of non-increasing cached fitness
\* with equal fitness in insertion order; and each mating of the generation
\* takes the adjacent pool members i, i+1
C10_PoolIsTopK ==
    /\ (pc = "for" /\ i = 0) =>
          /\ Len(maiting_pairs) = K
          /\ \A p \in 1..K : dict_pos(hashmap, maiting_pairs[p]) # 0
          /\ \A p, q \in 1..K :
                p < q =>
                   /\ ~StateEq(maiting_pairs[p], maiting_pairs[q])
                   /\ \/ dict_get(hashmap, maiting_pairs[p])
                            > dict_get(hashmap, maiting_pairs[q])
                      \/ /\ dict_get(hashmap, maiting_pairs[p])
                               = dict_get(hashmap, maiting_pairs[q])
                         /\ dict_pos(hashmap, maiting_pairs[p])
                               < dict_pos(hashmap, maiting_pairs[q])
          /\ \A p \in 1..K, e \in 1..Len(hashmap) :
                ~InPool(hashmap[e].key) =>
                    dict_get(hashmap, maiting_pairs[p]) >= Cached(e)
    /\ (pc # "done" /\ maiting_pairs # Unbound /\ i > 0) =>
          parents = <<maiting_pairs[i], maiting_pairs[i + 1]>>

\* the second generation opens on a grown population: a member of equal
\* fitness stays outside the pool, and the pool is not in insertion order
C10_Witness ==
    /\ pc = "for"
    /\ i = 0
    /\ counter = 2
    /\ \E p, q \in 1..K :
          /\ p < q
          /\ dict_get(hashmap, maiting_pairs[p]) = dict_get(hashmap, maiting_pairs[q])
    /\ \E p \in 1..(K - 1) :
          dict_pos(hashmap, maiting_pairs[p]) > dict_pos(hashmap, maiting_pairs[p + 1])
    /\ \E e \in 1..Len(hashmap) :
          /\ ~InPool(hashmap[e].key)
          /\ Cached(e) = dict_get(hashmap, maiting_pairs[K])

----------------------------------------------------------------------------------------------------------------------------------------
(* The search script: liveness *)

\* a step of the script is possible: the loop test with room under the bound
\* for one more generation, a pass of the for loop, or the final prints
Advance ==
    /\ \/ pc = "while" /\ searching /\ iterations + (K - 1) <= MaxIterations
       \/ pc = "while" /\ ~searching
       \/ pc = "for" /\ i < K - 1
    /\ pc' \in {"while", "for", "done"}
    /\ i' \in 0..K
    /\ pc' # pc \/ i' # i

\* the script is one thread that nothing suspends: it takes its next step.
\* Every step of Next moves pc or the loop index, and Advance is enabled
\* exactly where Next is
LiveSpec == Init /\ [][Next]_vars /\ WF_<<pc, i>>(Advance)

\* a generation that bred no goal child and left the pool as it found it: the
\* K members are the same objects in the same order.  The same draws then
\* breed children of the same digits and fitness, which rank behind the
\* members as before, so the generation can repeat without end
PoolRecurs ==
    /\ pc = "for"
    /\ i = 0
    /\ counter >= 2
    /\ searching
    /\ maiting_pairs = last_pool

\* C5: every run of the search loop terminates: a goal child is eventually
\* produced and the loop is left, so no generation leaves the search where it
\* was
C5_AlwaysTerminates ==
    /\ <>(pc = "done")
    /\ [](~PoolRecurs)

\* C5, amended: the loop is left exactly in the runs in which a mating produces
\* a goal child; once it has, the loop is left when the generation is complete
C5_TerminatesOnGoalChild ==
    /\ (first_goal # Unbound) ~> (pc = "done")
    /\ [](pc = "done" => first_goal # Unbound)

\* a run that ended on a goal child of a later generation
C5_Witness ==
    /\ pc = "done"
    /\ first_goal # Unbound
    /\ iterations > K - 1

----------------------------------------------------------------------------
(* Calls of fitness, goal and the methods of State on enumerated inputs *)

\* no call made yet; the script has not run and the class is freshly loaded
InitCalls ==
    /\ call = NoCall
    /\ ret = Unbound
    /\ ncalls = 0
    /\ gens = <<>>
    /\ possible_states = [len |-> -1]
    /\ state_gen = "fresh"
    /\ hashmap = <<>>
    /\ searching = TRUE
    /\ iterations = 0
    /\ counter = 0
    /\ maiting_pairs = Unbound
    /\ i = 0
    /\ golden_child = Unbound
    /\ output = Unbound
    /\ pc = "call"
    /\ mutations = 0
    /\ first_goal = Unbound
    /\ parents = Unbound
    /\ last_pool = Unbound

\* the digit string that differs from base in the places of f, where it is f
Edited(base, f) == [p \in 1.._N |-> IF p \in DOMAIN f THEN f[p] ELSE base[p]]

\* the sets of at most n places of a board
Places(n) == {P \in SUBSET (1.._N) : Cardinality(P) <= n}

\* two solutions and the two diagonals
FitnessBases ==
    { <<"4", "1", "5", "8", "2", "7", "3", "6">>,
      <<"1", "5", "8", "6", "3", "7", "2", "4">>,
      <<"1", "2", "3", "4", "5", "6", "7", "8">>,
      <<"8", "7", "6", "5", "4", "3", "2", "1">> }

\* the digits of the edits: those of _VALID_DIGITS, and another character of
\* value 1 that State.__init__ accepts
EditDigits == {_VALID_DIGITS[v] : v \in 1.._N} \cup {"U+FF11"}

\* fitness(s) and goal(s) for a State s: a base edited in at most MaxEdits places
CallFitness ==
    /\ ncalls = 0
    /\ \E base \in FitnessBases, P \in Places(MaxEdits) :
       \E f \in [P -> EditDigits] :
       \E s \in {NewState(1, Edited(base, f)).v} :
          /\ call' = [op |-> "fitness", s |-> s]
          /\ ret' = [fitness |-> fitness(s), goal |-> goal(s)]
    /\ ncalls' = 1
    /\ UNCHANGED <<scriptVars, possible_states, state_gen, gens>>

FitnessSpec == InitCalls /\ [][CallFitness]_vars

\* C6: fitness(s) is within 0..28 and is the number of pairs of files i < j
\* whose queens share neither a row nor a diagonal; it is 28, and goal holds,
\* exactly when no two queens share a row or a diagonal
C6_FitnessCountsPairs ==
    call.op = "fitness" =>
        LET d == call.s.digits
            Free == {ab \in (1.._N) \X (1.._N) :
                        /\ ab[1] < ab[2]
                        /\ RowOf(d[ab[1]]) # RowOf(d[ab[2]])
                        /\ ab[2] - ab[1] # RowOf(d[ab[1]]) - RowOf(d[ab[2]])
                        /\ ab[2] - ab[1] # RowOf(d[ab[2]]) - RowOf(d[ab[1]])}
        IN  /\ ret.fitness \in 0..28
            /\ ret.fitness = Cardinality(Free)
            /\ ret.fitness = 28 <=> IsSolution(d)
            /\ ret.goal <=> IsSolution(d)

\* the parents handed to mate: three boards of _VALID_DIGITS and one of other
\* decimal digits
MateInputs ==
    { <<"4", "1", "5", "8", "1", "7", "3", "6">>,
      <<"4", "1", "5", "1", "2", "7", "3", "6">>,
      <<"1", "2", "3", "4", "5", "6", "7", "8">>,
      <<"U+0661", "U+0662", "U+0663", "U+0664",
        "U+0665", "U+0666", "U+0667", "U+FF18">> }

NoDraws == [p \in 1.._N |-> ""]

\* self.mate(other, mutation_probability); random.random() is never below 0, so
\* digits are drawn only for a positive probability
CallMate ==
    /\ ncalls = 0
    /\ \E a \in MateInputs, b \in MateInputs,
          p \in {-1, 0, MUTATION_PROBABILITY, 100}, c \in 0..(_N - 1) :
       \E r \in IF 0 < p /\ p < 100 THEN Draws(MaxCallMutations, 1.._N, {_VALID_DIGITS[v] : v \in 1.._N}) ELSE {NoDraws} :
       \E self \in {NewState(1, a).v}, other \in {NewState(2, b).v} :
          /\ call' = [op |-> "mate", self |-> self, other |-> other,
                      mutation_probability |-> p, c |-> c, r |-> r]
          /\ ret' = [result |-> mate(self, other, p, c, r, 3),
                     self |-> self, other |-> other]
    /\ ncalls' = 1
    /\ UNCHANGED <<scriptVars, possible_states, state_gen, gens>>

MateSpec == InitCalls /\ [][CallMate]_vars

\* length 8 and every value in 1..8
ValidDigits(digits) ==
    /\ Len(digits) = 8
    /\ \A p \in 1..8 : /\ digits[p] \in DecimalChars
                        /\ DecimalValue[digits[p]] \in 1..8

\* C7: with probability 0, a.mate(b) at crossover point c is the first c digits
\* of a followed by the digits of b from c on, a valid State, and a and b are
\* as they were
C7_MateSplices ==
    (call.op = "mate" /\ call.mutation_probability = 0) =>
        /\ ret.result.ok
        /\ ret.result.v.digits =
              [p \in 1..8 |-> IF p <= call.c THEN call.self.digits[p]
                              ELSE call.other.digits[p]]
        /\ ValidDigits(ret.result.v.digits)
        /\ ret.self = call.self
        /\ ret.other = call.other

\* a crossover inside the board that yields neither parent
C7_Witness ==
    /\ call.op = "mate"
    /\ call.mutation_probability = 0
    /\ call.c = 4
    /\ ret.result.ok
    /\ ret.result.v.digits = <<"4", "1", "5", "8", "2", "7", "3", "6">>
    /\ ret.result.v.digits # call.self.digits
    /\ ret.result.v.digits # call.other.digits

\* the characters of the string keys
KeyLetters == {_FILES[f] : f \in 1..Len(_FILES)} \cup {"z"}

StrKeys == UNION {[1..n -> KeyLetters] : n \in 0..MaxKeyLen}

\* the keys of each type: labels, indices within and beyond the board, the
\* slices mate takes, and a key of another type
GetItemKeys(type) ==
    CASE type = "str"   -> {StrKey(str) : str \in StrKeys}
      [] type = "int"   -> {IntKey(n) : n \in (-_N - 1).._N}
      [] type = "slice" -> {SliceKey(0, n) : n \in 0.._N}
                           \cup {SliceKey(n, _N) : n \in 0.._N}
      [] OTHER          -> {OtherKey}

GetItemInputs ==
    { <<"1", "2", "3", "4", "5", "6", "7", "8">>,
      <<"4", "1", "5", "8", "2", "7", "3", "6">> }

\* s[key]
CallGetItem ==
    /\ ncalls = 0
    /\ \E digits \in GetItemInputs, type \in {"str", "int", "slice", "other"} :
       \E key \in GetItemKeys(type) :
       \E s \in {NewState(1, digits).v} :
          /\ call' = [op |-> "getitem", s |-> s, key |-> key]
          /\ ret' = __getitem__(s, key)
    /\ ncalls' = 1
    /\ UNCHANGED <<scriptVars, possible_states, state_gen, gens>>

GetItemSpec == InitCalls /\ [][CallGetItem]_vars

\* C8: a string key that is one of the labels 'a'..'h' gives what the index of
\* that file gives; every other string key fails and gives no value
C8_LabelOrError ==
    (call.op = "getitem" /\ call.key.type = "str") =>
        IF \E f \in 1..8 : call.key.v = <<_FILES[f]>>
        THEN \A f \in 1..8 :
                call.key.v = <<_FILES[f]>> =>
                    /\ ret = Ok(call.s.digits[f])
                    /\ ret = __getitem__(call.s, IntKey(f - 1))
        ELSE ~ret.ok

\* the positions random.sample may draw in the checked calls: both ends of the
\* enumeration and a solution
SamplePositions ==
    {0, ProductLen - 1, PositionOf(<<"4", "1", "5", "8", "2", "7", "3", "6">>)}

\* the counts asked for: none, some, and more than there are
GeneratorCounts == {-1, 0} \cup (1..MaxCount) \cup {ProductLen + 1}

\* len(cls._possible_states) once the attribute is loaded
LoadedLen ==
    IF possible_states.len = -1 THEN TupleOfStateGen(state_gen).len
    ELSE possible_states.len

\* the identity of the State that generator object k yields in place n: every
\* yield allocates a new object, named here by the generator and the place
YieldId(k, n) == (k - 1) * MaxCount + n

\* State.generator(num_states): the call returns a generator object and runs
\* nothing of the body
CallGenerator ==
    /\ ncalls < MaxCalls
    /\ \E n \in GeneratorCounts :
          gens' = Append(gens, [num_states |-> n, stage |-> "new", err |-> "",
                                sample |-> <<>>, yielded |-> <<>>])
    /\ ncalls' = ncalls + 1
    /\ UNCHANGED <<scriptVars, possible_states, state_gen, call, ret>>

\* next(g) on a generator object that has not run yet: lines 97-106, and line
\* 107 up to the first yield
FirstNext(k) ==
    /\ gens[k].stage = "new"
    /\ \E picks \in IF 0 < gens[k].num_states /\ gens[k].num_states <= LoadedLen
                    THEN Samples(SamplePositions, LoadedLen, gens[k].num_states)
                    ELSE {<<>>} :
       \E first \in {generator_first(gens[k].num_states, possible_states,
                                     state_gen, picks)} :
          /\ gens' = IF first.ret.ok
                     THEN [gens EXCEPT
                             ![k].stage = "suspended",
                             ![k].sample = first.ret.v,
                             ![k].yielded =
                                 <<generator_yield(first.ret.v[1],
                                                   YieldId(k, 1))>>]
                     ELSE [gens EXCEPT ![k].stage = "raised",
                                       ![k].err = first.ret.err]
          /\ possible_states' = first._possible_states
          /\ state_gen' = first._state_gen

\* next(g) on a generator object suspended at its yield: the for loop of line
\* 106 goes on to the next sampled tuple and line 107 yields its State, or the
\* sample is used up and the generator ends
LaterNext(k) ==
    /\ gens[k].stage = "suspended"
    /\ gens' = IF Len(gens[k].yielded) < Len(gens[k].sample)
               THEN [gens EXCEPT
                       ![k].yielded =
                           Append(@, generator_yield(
                                        gens[k].sample[Len(gens[k].yielded) + 1],
                                        YieldId(k, Len(gens[k].yielded) + 1)))]
               ELSE [gens EXCEPT ![k].stage = "finished"]
    /\ UNCHANGED <<possible_states, state_gen>>

\* next(g) for one of the generator objects, in any order
NextGenerator ==
    /\ \E k \in 1..Len(gens) : FirstNext(k) \/ LaterNext(k)
    /\ UNCHANGED <<scriptVars, call, ret, ncalls>>

GeneratorSpec == InitCalls /\ [][CallGenerator \/ NextGenerator]_vars

\* C9: a call for 1..N^N States yields that many, pairwise distinct in their
\* digits and each a valid State, on the first call and on the later ones; a
\* call for more, or for none, fails and yields no State
C9_GeneratorYieldsDistinct ==
    \A k \in 1..Len(gens) :
        IF 1 <= gens[k].num_states /\ gens[k].num_states <= 8 ^ 8
        THEN /\ gens[k].stage # "raised"
             /\ gens[k].stage = "suspended" =>
                    /\ 1 <= Len(gens[k].yielded)
                    /\ Len(gens[k].yielded) <= gens[k].num_states
             /\ gens[k].stage = "finished" =>
                    Len(gens[k].yielded) = gens[k].num_states
             /\ \A a, b \in 1..Len(gens[k].yielded) :
                   a # b => gens[k].yielded[a].digits # gens[k].yielded[b].digits
             /\ \A a \in 1..Len(gens[k].yielded) :
                   ValidDigits(gens[k].yielded[a].digits)
        ELSE /\ gens[k].stage \in {"new", "raised"}
             /\ gens[k].yielded = <<>>

\* a later call, served from the enumeration that the first call loaded, that
\* has yielded all its MaxCount States while the first call is still suspended
\* at a yield
C9_Witness ==
    /\ Len(gens) = MaxCalls
    /\ gens[1].stage = "suspended"
    /\ gens[MaxCalls].stage = "finished"
    /\ Len(gens[MaxCalls].yielded) = MaxCount
    /\ state_gen = "exhausted"

====
